---- MODULE Spec2Model ----
(***************************************************************************)
(* ZIP2VID, src/main.py: a directory of media files is collected, sorted   *)
(* in "natural" order, every file is turned into canvas-sized RGB frames   *)
(* (get_processed_frame) and the frames are piped to one ffmpeg process.   *)
(*                                                                         *)
(* Three specifications share this module:                                 *)
(*   Spec       main(): the encode loop, the encoder process, the mux      *)
(*   SpecSort   the sort of line 108 on lists of paths                     *)
(*   SpecFrame  get_processed_frame and the zoom of the static-image loop  *)
(*                                                                         *)
(* Floating point.  DURATION is a float read from the environment; here it *)
(* is a whole number of milliseconds (DurMs) and every product is computed *)
(* exactly, then truncated as int() truncates.  For the durations, frame   *)
(* totals and image sizes enumerated below the exact value and the IEEE    *)
(* double value truncate to the same integer (0.33*30 = 9.9 -> 9,          *)
(* 0.1*30 = 3.0000000000000004 -> 3).                                      *)
(***************************************************************************)
EXTENDS Integers, Sequences, FiniteSets, TLC

VARIABLES
    \* ---- main() ----
    DurMs,          \* DURATION, in milliseconds (line 10)
    avail,          \* the video codecs the installed ffmpeg can encode with
    files,          \* the collected and sorted media list (lines 103-108)
    pc,             \* position of main()
    f,              \* index in files of the item of the for loop (line 135)
    count,          \* frames of the current item written so far (line 146 / idx of line 158)
    total_frames,   \* line 133
    chapters,       \* the [CHAPTER] blocks appended to chapters.txt (lines 137-139)
    process,        \* the ffmpeg of line 132: "none", "running", "exit0", "exit1"
    stdin,          \* process.stdin: "none", "open", "closed"
    written,        \* frames ffmpeg received on stdin, in order: <<item, frame index>>
    popens,         \* number of encoder processes opened for frame input
    brokenWrites,   \* stdin.write calls that raised BrokenPipeError
    diedEarly,      \* the encoder exited while main() was still in the for loop
    waited,         \* process.wait() has returned (line 167)
    out_path,       \* the file at out_path: "none", "partial", "complete"
    final_out,      \* the mux of line 171 created final_out
    published,      \* final_name was appended to GITHUB_OUTPUT (line 174)
    exit,           \* how main() ended: "running", "returned", "exception"
    \* ---- the sort of line 108 ----
    walk,           \* paths in the order os.walk produced them
    sorted,         \* the list after files.sort(key=...)
    sortPc,
    \* ---- get_processed_frame ----
    img,            \* <<width, height>> of the source image
    frameDur,       \* DURATION (ms) of the static-image loop around the call
    idx,            \* loop index of line 158
    zoomNum,        \* zoom_factor of the last call = zoomNum / zoomDen
    zoomDen,
    fg,             \* <<width, height>> of the resized foreground (line 63)
    bg,             \* <<width, height>> of the background (line 57)
    offset,         \* paste offset (line 65)
    framePc

mainVars == <<DurMs, avail, files, pc, f, count, total_frames, chapters, process,
              stdin, written, popens, brokenWrites, diedEarly, waited, out_path,
              final_out, published, exit>>
sortVars == <<walk, sorted, sortPc>>
frameVars == <<img, frameDur, idx, zoomNum, zoomDen, fg, bg, offset, framePc>>
vars == <<mainVars, sortVars, frameVars>>

\* ---------------------------------------------------------------- constants
W == 1920
H == 1080
FPS == 30

\* ------------------------------------------------------------------- bounds
MaxItems == 2       \* longest media list
MaxNative == 2      \* most frames a reader yields for one animated image or video
MaxFiles == 3       \* longest list of paths given to the sort

Min(a, b) == IF a <= b THEN a ELSE b
Max(a, b) == IF a >= b THEN a ELSE b

\* 0.02 s, 0.04 s, 0.1 s and the default 0.33 s
Durations == {20, 40, 100, 330}

\* ======================================================= the sort (line 108)
\* A path is a sequence of one-character strings.  The paths stand for the
\* os.path.join(dp, f) of line 107 without what they all share (the
\* "workspace/extracted/" prefix and the extension), which changes no comparison.
PathSet ==
    { <<"a", "1">>, <<"a", "0", "1">>, <<"A", "1">>, <<"a", "2">>,
      <<"a", "1", "0">>, <<"b", "1">>, <<"1", "a">> }

IsDigit(c) == c \in {"0", "1", "2", "3", "4", "5", "6", "7", "8", "9"}

DigitVal(c) ==
    CASE c = "0" -> 0 [] c = "1" -> 1 [] c = "2" -> 2 [] c = "3" -> 3 [] c = "4" -> 4
      [] c = "5" -> 5 [] c = "6" -> 6 [] c = "7" -> 7 [] c = "8" -> 8 [] c = "9" -> 9

\* str.lower() on one character
Lower(c) == CASE c = "A" -> "a" [] c = "B" -> "b" [] OTHER -> c

\* code point of a character: str < str compares code points
Ord(c) ==
    CASE IsDigit(c) -> 48 + DigitVal(c)
      [] c = "A" -> 65 [] c = "B" -> 66 [] c = "a" -> 97 [] c = "b" -> 98

\* re.split('([0-9]+)', s): the non-digit runs (possibly empty) at the odd
\* positions 1, 3, ... and the digit runs between them at the even positions.
RECURSIVE SplitRec(_, _, _)
SplitRec(s, cur, inDigits) ==
    IF s = <<>>
    THEN (IF inDigits THEN <<cur, <<>>>> ELSE <<cur>>)
    ELSE IF IsDigit(Head(s)) = inDigits
         THEN SplitRec(Tail(s), Append(cur, Head(s)), inDigits)
         ELSE <<cur>> \o SplitRec(Tail(s), <<Head(s)>>, ~inDigits)

Split(s) == SplitRec(s, <<>>, FALSE)

\* int(t) of a digit run
RECURSIVE IntOf(_)
IntOf(t) == IF t = <<>> THEN 0 ELSE 10 * IntOf(SubSeq(t, 1, Len(t) - 1)) + DigitVal(t[Len(t)])

LowerStr(t) == [k \in 1..Len(t) |-> Lower(t[k])]

\* the key of line 108: int(t) if t.isdigit() else t.lower(), token by token.
\* t.isdigit() holds exactly for the tokens at even positions.
KeyOf(s) ==
    LET toks == Split(s)
    IN  [k \in 1..Len(toks) |-> IF k % 2 = 0 THEN IntOf(toks[k]) ELSE LowerStr(toks[k])]

\* Python's str < str
RECURSIVE StrLess(_, _)
StrLess(a, b) ==
    IF b = <<>> THEN FALSE
    ELSE IF a = <<>> THEN TRUE
    ELSE IF Ord(Head(a)) # Ord(Head(b)) THEN Ord(Head(a)) < Ord(Head(b))
    ELSE StrLess(Tail(a), Tail(b))

\* Python's list < list on two keys from position k on: the first position
\* where the keys differ decides, and a proper prefix is the smaller.  Both
\* keys hold an int at every even position and a str at every odd one.
RECURSIVE KeyLessFrom(_, _, _)
KeyLessFrom(x, y, k) ==
    IF k > Len(y) THEN FALSE
    ELSE IF k > Len(x) THEN TRUE
    ELSE IF x[k] # y[k] THEN (IF k % 2 = 0 THEN x[k] < y[k] ELSE StrLess(x[k], y[k]))
    ELSE KeyLessFrom(x, y, k + 1)

KeyLess(x, y) == KeyLessFrom(x, y, 1)

\* list.sort is stable: an element goes before the first one with a greater key
RECURSIVE InsertByKey(_, _)
InsertByKey(x, s) ==
    IF s = <<>> THEN <<x>>
    ELSE IF KeyLess(KeyOf(x), KeyOf(Head(s))) THEN <<x>> \o s
    ELSE <<Head(s)>> \o InsertByKey(x, Tail(s))

RECURSIVE SortInto(_, _)
SortInto(s, acc) == IF s = <<>> THEN acc ELSE SortInto(Tail(s), InsertByKey(Head(s), acc))

SortByKey(s) == SortInto(s, <<>>)

Range(s) == {s[k] : k \in 1..Len(s)}

\* the orders in which os.walk can list a duplicate-free set of at most MaxFiles paths
Walks ==
    { w \in UNION { [1..n -> PathSet] : n \in 0..MaxFiles } :
        \A j, k \in 1..Len(w) : j # k => w[j] # w[k] }

SortInit == walk \in Walks /\ sorted = <<>> /\ sortPc = "walked"
SortIdle == walk = <<>> /\ sorted = <<>> /\ sortPc = "idle"

\* files.sort(key=...) on the list the walk produced
SortFiles ==
    /\ sortPc = "walked"
    /\ sorted' = SortByKey(walk)
    /\ sortPc' = "sorted"
    /\ UNCHANGED walk
    /\ UNCHANGED <<mainVars, frameVars>>

\* the same sort applied to its own result
SortAgain ==
    /\ sortPc = "sorted"
    /\ sorted' = SortByKey(sorted)
    /\ sortPc' = "resorted"
    /\ UNCHANGED walk
    /\ UNCHANGED <<mainVars, frameVars>>

\* ============================================ get_processed_frame (lines 52-66)
\* 16:9, 4:3, portrait and square sources, some larger and some smaller than the canvas
ImageSizes ==
    { <<1920, 1080>>, <<1280, 720>>, <<640, 480>>, <<800, 600>>, <<1600, 1200>>,
      <<1080, 1920>>, <<500, 1900>>, <<1000, 1000>> }

\* num_frames = int(max(DURATION * FPS, 1)), line 156
NumFrames(d) == Max((d * FPS) \div 1000, 1)

\* BaseScale with fit and fill mixed up: max (aspect-fill) in place of min
BaseScaleFill(w, h) == IF W * h >= H * w THEN <<W, w>> ELSE <<H, h>>

\* base_scale = min(W / fg.width, H / fg.height), line 61, as <<numerator, denominator>>
BaseScale(w, h) == IF W * h <= H * w THEN <<W, w>> ELSE <<H, h>>

\* new_size of line 62 for zoom_factor = zn / zd: int() truncates the product
NewSize(w, h, zn, zd) ==
    LET b == BaseScale(w, h)
    IN  << (w * b[1] * zn) \div (b[2] * zd), (h * b[1] * zn) \div (b[2] * zd) >>

\* get_processed_frame(pil_img, zoom_factor): the sizes of the background and
\* of the foreground, and the offset the foreground is pasted at
GetProcessedFrame(size, zn, zd) ==
    LET new_size == NewSize(size[1], size[2], zn, zd)
    IN  [ bg     |-> <<W, H>>,
          fg     |-> new_size,
          offset |-> << (W - new_size[1]) \div 2, (H - new_size[2]) \div 2 >> ]

FrameInit ==
    /\ img \in ImageSizes
    /\ frameDur \in Durations
    /\ idx = 0
    /\ zoomNum = 1 /\ zoomDen = 1
    /\ fg = <<0, 0>> /\ bg = <<0, 0>> /\ offset = <<0, 0>>
    /\ framePc = "open"

FrameIdle ==
    /\ img = <<W, H>>
    /\ frameDur = 0
    /\ idx = 0
    /\ zoomNum = 1 /\ zoomDen = 1
    /\ fg = <<0, 0>> /\ bg = <<0, 0>> /\ offset = <<0, 0>>
    /\ framePc = "idle"

Call(size, zn, zd) ==
    LET r == GetProcessedFrame(size, zn, zd)
    IN  /\ fg' = r.fg /\ bg' = r.bg /\ offset' = r.offset
        /\ zoomNum' = zn /\ zoomDen' = zd

\* line 148: a frame of a reader is processed with the default zoom_factor=1.0
ReaderFrame ==
    /\ framePc = "open"
    /\ Call(img, 1, 1)
    /\ framePc' = "reader"
    /\ UNCHANGED <<img, frameDur, idx>>
    /\ UNCHANGED <<mainVars, sortVars>>

\* line 157: the static frame base, zoom_factor=1.0
StaticBase ==
    /\ framePc = "open"
    /\ Call(img, 1, 1)
    /\ framePc' = "base"
    /\ UNCHANGED <<img, frameDur, idx>>
    /\ UNCHANGED <<mainVars, sortVars>>

\* lines 158-161: zoom = 1.0 + 0.02 * (idx / num_frames) = (50 n + idx) / (50 n)
StaticZoomFrame ==
    /\ framePc \in {"base", "loop"}
    /\ idx < NumFrames(frameDur)
    /\ Call(img, 50 * NumFrames(frameDur) + idx, 50 * NumFrames(frameDur))
    /\ idx' = idx + 1
    /\ framePc' = "loop"
    /\ UNCHANGED <<img, frameDur>>
    /\ UNCHANGED <<mainVars, sortVars>>

\* ================================================================== main()
\* A media item, by what decoding it does.  kind is the extension test of
\* lines 142-145: "static" (jpg, jpeg, png), "anim" (gif, webp), "video"
\* (mp4, mov).  frames is the number of frames that decode; corrupt tells
\* that decoding raises after them (frames = 0: at open) instead of ending.
\* A static image is one picture, so it either opens or fails before the
\* first write.
Items ==
    { [kind |-> "static", frames |-> 1, corrupt |-> FALSE],
      [kind |-> "static", frames |-> 0, corrupt |-> TRUE] }
    \cup
    { it \in [kind : {"anim", "video"}, frames : 0..MaxNative, corrupt : BOOLEAN] :
        it.frames = 0 => it.corrupt }

MediaLists == UNION { [1..n -> Items] : n \in 0..MaxItems }

\* the one codec of the command line of lines 123-130
Codec == "libsvtav1"

\* the installed ffmpeg either has libsvtav1 or has only a common codec
Installs == { {"libx264"}, {"libsvtav1", "libx264"} }

\* n_frames of line 145 when it is None
None == 0 - 1

\* n_frames = int(DURATION * FPS) for .gif and .webp, else None (line 145)
NFrames(it) == IF it.kind = "anim" THEN (DurMs * FPS) \div 1000 ELSE None

\* "if n_frames": None and 0 are both false
Truthy(n) == n # None /\ n # 0

\* start_ms = int((total_frames / FPS) * 1000), line 136
StartMs(total) == (total * 1000) \div FPS

\* int(DURATION * 1000), line 139
DurationMs == DurMs

\* AllItemsDone off by one: the for loop is left one item early
AllItemsDoneEarly(k) == k >= Len(files)

\* the for loop of line 135 is exhausted
AllItemsDone(k) == k > Len(files)

MainInit ==
    /\ DurMs \in Durations
    /\ avail \in Installs
    /\ files \in MediaLists
    /\ pc = "collect"
    /\ f = 0 /\ count = 0 /\ total_frames = 0
    /\ chapters = <<>>
    /\ process = "none" /\ stdin = "none"
    /\ written = <<>>
    /\ popens = 0 /\ brokenWrites = 0 /\ diedEarly = FALSE /\ waited = FALSE
    /\ out_path = "none" /\ final_out = FALSE /\ published = FALSE
    /\ exit = "running"

MainIdle ==
    /\ DurMs = 0
    /\ avail = {}
    /\ files = <<>>
    /\ pc = "idle"
    /\ f = 0 /\ count = 0 /\ total_frames = 0
    /\ chapters = <<>>
    /\ process = "none" /\ stdin = "none"
    /\ written = <<>>
    /\ popens = 0 /\ brokenWrites = 0 /\ diedEarly = FALSE /\ waited = FALSE
    /\ out_path = "none" /\ final_out = FALSE /\ published = FALSE
    /\ exit = "running"

\* lines 110-111: nothing collected, print and return
NoMedia ==
    /\ pc = "collect"
    /\ files = <<>>
    /\ pc' = "done"
    /\ exit' = "returned"
    /\ UNCHANGED <<DurMs, avail, files, f, count, total_frames, chapters, process, stdin,
                   written, popens, brokenWrites, diedEarly, waited, out_path, final_out,
                   published>>
    /\ UNCHANGED <<sortVars, frameVars>>

\* lines 113-133: the chapter file gets its header and ffmpeg is started with
\* stdin=PIPE.  An ffmpeg without the codec exits at once, writing no file.
OpenEncoder ==
    /\ pc = "collect"
    /\ files # <<>>
    /\ chapters' = <<>>
    /\ popens' = popens + 1
    /\ process' = IF Codec \in avail THEN "running" ELSE "exit1"
    /\ diedEarly' = (Codec \notin avail)
    /\ stdin' = "open"
    /\ total_frames' = 0
    /\ f' = 1
    /\ pc' = "for"
    /\ UNCHANGED <<DurMs, avail, files, count, written, brokenWrites, waited, out_path,
                   final_out, published, exit>>
    /\ UNCHANGED <<sortVars, frameVars>>

\* the [CHAPTER] block of lines 136-139
Chapter(k) == [item |-> k, start |-> StartMs(total_frames),
               end |-> StartMs(total_frames) + DurationMs]

\* lines 136-146 / 155-157: the chapter is written, then the item opens
OpenItem ==
    /\ pc = "for"
    /\ ~AllItemsDone(f)
    /\ files[f].frames > 0
    /\ chapters' = Append(chapters, Chapter(f))
    /\ count' = 0
    /\ pc' = "frames"
    /\ UNCHANGED <<DurMs, avail, files, f, total_frames, process, stdin, written, popens,
                   brokenWrites, diedEarly, waited, out_path, final_out, published, exit>>
    /\ UNCHANGED <<sortVars, frameVars>>

\* lines 136-139, then get_reader, Image.open or the first decode raises:
\* "except: pass" (line 164) and the loop goes to the next item
OpenFails ==
    /\ pc = "for"
    /\ ~AllItemsDone(f)
    /\ files[f].frames = 0
    /\ chapters' = Append(chapters, Chapter(f))
    /\ f' = f + 1
    /\ UNCHANGED <<DurMs, avail, files, pc, count, total_frames, process, stdin, written,
                   popens, brokenWrites, diedEarly, waited, out_path, final_out, published, exit>>
    /\ UNCHANGED <<sortVars, frameVars>>

\* frames the loops of lines 147 and 158 can still produce for item it
Remaining(it) ==
    IF it.kind = "static" THEN count < NumFrames(DurMs) ELSE count < it.frames

\* after a write: range(num_frames) is exhausted (line 158), or the break of line 152
LeavesItem(it, c) ==
    IF it.kind = "static" THEN c >= NumFrames(DurMs)
    ELSE Truthy(NFrames(it)) /\ c >= NFrames(it)

\* lines 148-152 / 160-163: one frame is processed and written to the pipe
WriteFrame ==
    /\ pc = "frames"
    /\ Remaining(files[f])
    /\ process = "running"
    /\ written' = Append(written, <<f, count + 1>>)
    /\ count' = count + 1
    /\ total_frames' = total_frames + 1
    /\ IF LeavesItem(files[f], count + 1)
       THEN f' = f + 1 /\ pc' = "for"
       ELSE UNCHANGED <<f, pc>>
    /\ UNCHANGED <<DurMs, avail, files, chapters, process, stdin, popens, brokenWrites,
                   diedEarly, waited, out_path, final_out, published, exit>>
    /\ UNCHANGED <<sortVars, frameVars>>

\* lines 149 / 162 with the encoder gone: write raises BrokenPipeError, which
\* "except: pass" swallows; the loop goes to the next item
WriteBroken ==
    /\ pc = "frames"
    /\ Remaining(files[f])
    /\ process # "running"
    /\ brokenWrites' = brokenWrites + 1
    /\ f' = f + 1
    /\ pc' = "for"
    /\ UNCHANGED <<DurMs, avail, files, count, total_frames, chapters, process, stdin,
                   written, popens, diedEarly, waited, out_path, final_out, published, exit>>
    /\ UNCHANGED <<sortVars, frameVars>>

\* line 147 ends the iteration, line 153 closes the reader
ReaderEnd ==
    /\ pc = "frames"
    /\ files[f].kind # "static"
    /\ count = files[f].frames
    /\ ~files[f].corrupt
    /\ f' = f + 1
    /\ pc' = "for"
    /\ UNCHANGED <<DurMs, avail, files, count, total_frames, chapters, process, stdin,
                   written, popens, brokenWrites, diedEarly, waited, out_path, final_out,
                   published, exit>>
    /\ UNCHANGED <<sortVars, frameVars>>

\* the reader raises in the middle of the file: "except: pass", next item.
\* What was written before stays written.
DecodeError ==
    /\ pc = "frames"
    /\ files[f].kind # "static"
    /\ count = files[f].frames
    /\ files[f].corrupt
    /\ f' = f + 1
    /\ pc' = "for"
    /\ UNCHANGED <<DurMs, avail, files, count, total_frames, chapters, process, stdin,
                   written, popens, brokenWrites, diedEarly, waited, out_path, final_out,
                   published, exit>>
    /\ UNCHANGED <<sortVars, frameVars>>

\* line 166
CloseStdin ==
    /\ pc = "for"
    /\ AllItemsDone(f)
    /\ stdin' = "closed"
    /\ pc' = "wait"
    /\ UNCHANGED <<DurMs, avail, files, f, count, total_frames, chapters, process, written,
                   popens, brokenWrites, diedEarly, waited, out_path, final_out, published, exit>>
    /\ UNCHANGED <<sortVars, frameVars>>

\* line 167: wait returns once ffmpeg has exited; its return code is not read
Wait ==
    /\ pc = "wait"
    /\ process # "running"
    /\ waited' = TRUE
    /\ pc' = "mux"
    /\ UNCHANGED <<DurMs, avail, files, f, count, total_frames, chapters, process, stdin,
                   written, popens, brokenWrites, diedEarly, out_path, final_out, published, exit>>
    /\ UNCHANGED <<sortVars, frameVars>>

\* line 171: a second ffmpeg copies out_path and the chapters into final_out.
\* It is run without check=True.  It cannot read a missing file; what it
\* makes of a truncated file is up to ffmpeg.
Mux ==
    /\ pc = "mux"
    /\ \E ok \in (IF out_path = "partial" THEN BOOLEAN ELSE {out_path = "complete"}) :
          final_out' = ok
    /\ pc' = "replace"
    /\ UNCHANGED <<DurMs, avail, files, f, count, total_frames, chapters, process, stdin,
                   written, popens, brokenWrites, diedEarly, waited, out_path, published, exit>>
    /\ UNCHANGED <<sortVars, frameVars>>

\* line 172: os.replace(final_out, out_path)
Replace ==
    /\ pc = "replace"
    /\ final_out
    /\ final_out' = FALSE
    /\ pc' = "publish"
    /\ UNCHANGED <<DurMs, avail, files, f, count, total_frames, chapters, process, stdin,
                   written, popens, brokenWrites, diedEarly, waited, out_path, published,
                   exit>>
    /\ UNCHANGED <<sortVars, frameVars>>

\* line 172 with no final_out: FileNotFoundError leaves main()
ReplaceFails ==
    /\ pc = "replace"
    /\ ~final_out
    /\ exit' = "exception"
    /\ pc' = "done"
    /\ UNCHANGED <<DurMs, avail, files, f, count, total_frames, chapters, process, stdin,
                   written, popens, brokenWrites, diedEarly, waited, out_path, final_out,
                   published>>
    /\ UNCHANGED <<sortVars, frameVars>>

\* line 174, then main() returns
Publish ==
    /\ pc = "publish"
    /\ published' = TRUE
    /\ exit' = "returned"
    /\ pc' = "done"
    /\ UNCHANGED <<DurMs, avail, files, f, count, total_frames, chapters, process, stdin,
                   written, popens, brokenWrites, diedEarly, waited, out_path, final_out>>
    /\ UNCHANGED <<sortVars, frameVars>>

\* ffmpeg, the process of line 132, exits with a non-zero status while it is
\* running, leaving no file or a truncated one
EncoderCrash ==
    /\ process = "running"
    /\ process' = "exit1"
    /\ out_path' \in {"none", "partial"}
    /\ diedEarly' = (diedEarly \/ pc = "frames" \/ (pc = "for" /\ ~AllItemsDone(f)))
    /\ UNCHANGED <<DurMs, avail, files, pc, f, count, total_frames, chapters, stdin,
                   written, popens, brokenWrites, waited, final_out, published, exit>>
    /\ UNCHANGED <<sortVars, frameVars>>

\* ffmpeg reads end-of-file on its stdin, finishes the file and exits 0
EncoderFinish ==
    /\ process = "running"
    /\ stdin = "closed"
    /\ process' = "exit0"
    /\ out_path' = "complete"
    /\ UNCHANGED <<DurMs, avail, files, pc, f, count, total_frames, chapters, stdin,
                   written, popens, brokenWrites, diedEarly, waited, final_out, published,
                   exit>>
    /\ UNCHANGED <<sortVars, frameVars>>

MainNext ==
    \/ NoMedia \/ OpenEncoder \/ OpenItem \/ OpenFails
    \/ WriteFrame \/ WriteBroken \/ ReaderEnd \/ DecodeError
    \/ CloseStdin \/ Wait \/ Mux \/ Replace \/ ReplaceFails \/ Publish
    \/ EncoderCrash \/ EncoderFinish

Init == MainInit /\ SortIdle /\ FrameIdle
Next == MainNext
Spec == Init /\ [][Next]_vars

SortNext == SortFiles \/ SortAgain
InitSort == SortInit /\ MainIdle /\ FrameIdle
NextSort == SortNext
SpecSort == InitSort /\ [][NextSort]_vars

FrameNext == ReaderFrame \/ StaticBase \/ StaticZoomFrame
InitFrame == FrameInit /\ MainIdle /\ SortIdle
NextFrame == FrameNext
SpecFrame == InitFrame /\ [][NextFrame]_vars

\* ============================================================== properties
\* round(n / d) as Python rounds: to the nearest integer, a half to the even one
Round(n, d) ==
    LET q == n \div d
        r == n % d
    IN  IF 2 * r < d THEN q
        ELSE IF 2 * r > d THEN q + 1
        ELSE IF q % 2 = 0 THEN q ELSE q + 1

\* frames of item k that reached the encoder
CountWritten(k) == Cardinality({j \in 1..Len(written) : written[j][1] = k})

\* frames of the items before k, and through k, that reached the encoder
WrittenBefore(k) == Cardinality({j \in 1..Len(written) : written[j][1] < k})
WrittenThrough(k) == Cardinality({j \in 1..Len(written) : written[j][1] <= k})

\* the for loop has finished item k
Finished(k) == k < f \/ pc \in {"wait", "mux", "replace", "publish", "done"}

\* C1: every static image that decodes and is written to a live encoder puts
\* max(1, round(DURATION * FPS)) frames on the pipe.
C1_FrameCountIsRounded ==
    \A k \in 1..Len(files) :
        (files[k].kind = "static" /\ ~files[k].corrupt /\ Finished(k) /\ brokenWrites = 0)
            => CountWritten(k) = Max(1, Round(DurMs * FPS, 1000))

\* C2: an animated image never puts more than round(DURATION * FPS) frames on
\* the pipe, whatever its native frame count and whatever the duration.
C2_AnimatedCapped ==
    \A k \in 1..Len(files) :
        files[k].kind = "anim" => CountWritten(k) <= Round(DurMs * FPS, 1000)

\* C3: an item whose decoding fails, at open or at any later frame, puts no
\* frame at all on the pipe, and every item that decodes puts its frames there.
C3_FailedItemWritesNothing ==
    \A k \in 1..Len(files) :
        /\ files[k].corrupt => CountWritten(k) = 0
        /\ (~files[k].corrupt /\ Finished(k) /\ brokenWrites = 0) => CountWritten(k) >= 1

\* C4: once the encoder has gone, main() attempts no further write, opens no
\* further item, and does not end as a successful run.
C4_StopsFeedingDeadEncoder ==
    /\ brokenWrites <= 1
    /\ brokenWrites >= 1 => pc # "frames"
    /\ (pc = "done" /\ diedEarly) => (exit = "exception" /\ ~published)

\* C5: a run with an empty media list, or whose encoder exited non-zero, ends
\* with no file at out_path, not by a normal return, and without final_name.
C5_FailureIsVisible ==
    (pc = "done" /\ (files = <<>> \/ process = "exit1"))
        => (out_path = "none" /\ exit # "returned" /\ ~published)

\* C6: when libsvtav1 cannot encode and a fallback codec can, a second encoder
\* is started with the fallback and the run ends in success with its file.
C6_FallbackCodecIsTried ==
    (/\ pc = "done" /\ Codec \notin avail /\ "libx264" \in avail
     /\ \E k \in 1..Len(files) : ~files[k].corrupt)
        => (popens = 2 /\ published /\ exit = "returned" /\ out_path = "complete")

\* the frames on the pipe are in item order and, within an item, in frame order
WrittenInOrder ==
    \A j, k \in 1..Len(written) :
        j < k => \/ written[j][1] < written[k][1]
                 \/ (written[j][1] = written[k][1] /\ written[j][2] < written[k][2])

C7_Inv ==
    /\ popens <= 1
    /\ (files # <<>> /\ pc # "collect") => popens = 1
    /\ WrittenInOrder
    /\ stdin = "closed" => f > Len(files)
    /\ waited => stdin = "closed"

\* C7: with a non-empty list exactly one encoder is opened; the frames reach its
\* stdin in item order and in frame order within an item; stdin is closed only
\* after the last item; nothing is written after the close; the wait comes
\* after the close.
C7_OnePipeInOrder ==
    /\ []C7_Inv
    /\ [][stdin = "closed" => written' = written]_vars

\* C7 happens: two items were written to one encoder, stdin was closed, the
\* encoder was waited for and the run published its file.
C7_Witness ==
    /\ pc = "done" /\ published /\ waited
    /\ Len(files) = 2 /\ CountWritten(1) >= 1 /\ CountWritten(2) >= 2

Perms(s) ==
    { p \in [1..Len(s) -> Range(s)] : \A j, k \in 1..Len(s) : j # k => p[j] # p[k] }

\* C8: the sort key orders any two distinct paths strictly, so the sorted list
\* is the same for every order of the walk; and sorting again changes nothing.
C8_StrictTotalOrder ==
    sortPc \in {"sorted", "resorted"} =>
        /\ \A p, q \in Range(walk) :
              p # q => (KeyLess(KeyOf(p), KeyOf(q)) \/ KeyLess(KeyOf(q), KeyOf(p)))
        /\ \A w \in Perms(walk) : SortByKey(w) = sorted
        /\ sortPc = "resorted" => sorted = SortByKey(walk)

\* C9 as stated: for every zoom of the static loop the foreground fits the
\* canvas, the paste offsets are not negative, and the background is W x H.
C9_ForegroundFitsCanvas ==
    framePc \in {"reader", "base", "loop"} =>
        /\ fg[1] <= W /\ fg[2] <= H
        /\ offset[1] >= 0 /\ offset[2] >= 0
        /\ bg = <<W, H>>

\* C9 amended: the background is W x H; the foreground is at most
\* int(W * zoom) x int(H * zoom), which is within the canvas, with offsets
\* that are not negative, exactly when zoom = 1.0 (the reader frames, the
\* static base and idx = 0); for idx >= 1 it is less than 2% over the canvas
\* and the offsets are at least -19 and -11.
C9_ForegroundWithinZoomedCanvas ==
    framePc \in {"reader", "base", "loop"} =>
        /\ bg = <<W, H>>
        /\ fg[1] <= (W * zoomNum) \div zoomDen
        /\ fg[2] <= (H * zoomNum) \div zoomDen
        /\ fg[1] * 50 < W * 51 /\ fg[2] * 50 < H * 51
        /\ offset[1] >= 0 - 19 /\ offset[2] >= 0 - 11
        /\ zoomNum = zoomDen => (fg[1] <= W /\ fg[2] <= H /\ offset[1] >= 0 /\ offset[2] >= 0)

\* C9 happens: a frame of the static loop with idx >= 1 whose foreground is
\* wider than the canvas and is pasted at a negative offset.
C9_Witness ==
    framePc = "loop" /\ idx >= 2 /\ zoomNum > zoomDen /\ fg[1] > W /\ offset[1] < 0

\* C10: there is one chapter per item; it starts at the time of the frames
\* written before the item and ends at the time of the frames written through
\* the item, so each chapter ends where the next one starts.
C10_ChaptersFollowFrames ==
    (stdin = "closed" /\ ~diedEarly /\ brokenWrites = 0) =>
        /\ Len(chapters) = Len(files)
        /\ \A k \in 1..Len(chapters) :
              /\ chapters[k].start = StartMs(WrittenBefore(k))
              /\ chapters[k].end = StartMs(WrittenThrough(k))
              /\ k < Len(chapters) => chapters[k].end = chapters[k + 1].start

====
